---- MODULE Spec2Model ----
(***************************************************************************)
(* Model of app_gemini.py (Patent Insight AI Dashboard, Gemini edition).   *)
(*                                                                         *)
(* The program is a Streamlit script: every user event runs the script     *)
(* top to bottom (sidebar, tab 1, tab 2, tab 3) against st.session_state.  *)
(* The state modelled is st.session_state.patents, the api key widget and  *)
(* st.session_state.api_key_verified, the position of the script inside    *)
(* the tab-1 batch loop with the loop's locals, and the outcome of the     *)
(* tab-2 dashboard evaluation of the current script run.                   *)
(*                                                                         *)
(* Python strings are modelled as sequences of symbols. A symbol is one    *)
(* character (backtick, newline, space, quote) or an indivisible chunk of  *)
(* characters that holds no backtick, no whitespace at its ends and no     *)
(* part of the word json; on such strings the substring search, split and  *)
(* strip of Python act symbol by symbol.                                   *)
(***************************************************************************)
EXTENDS Integers, Sequences, FiniteSets, TLC

VARIABLES
    patents,           \* st.session_state.patents
    api_key_input,     \* value of the sidebar text input
    api_key_verified,  \* st.session_state.api_key_verified
    pc,                \* position of the script: see PcValues
    uploaded_files,    \* the files of the batch being processed
    idx,               \* 1-based index of the file being processed
    text,              \* local `text` of the loop body
    parsed,            \* json.loads result inside the summarizer (before backfill)
    summary,           \* local `summary` of the loop body
    embedding,         \* local `embedding` of the loop body
    dashboard,         \* outcome of the tab-2 evaluation of this script run
    report,            \* outcome of the tab-3 report request of this script run
    batchStart,        \* history: the store when the batch started
    fileStart,         \* history: the store when the current file started
    outcomes,          \* history: per-file outcome of the batch, in order
    stages,            \* history: stages invoked for the current file
    provenance,        \* history: per stored record, the stages that built it
    sinceClear,        \* history: a clear happened and nothing was appended since
    issued,            \* history: the ids given to records so far in the session
    fence              \* the fence-stripping harness: content and its three strippings

vars == <<patents, api_key_input, api_key_verified, pc, uploaded_files, idx,
          text, parsed, summary, embedding, dashboard, report, batchStart,
          fileStart, outcomes, stages, provenance, sinceClear, fence, issued>>

---------------------------------------------------------------------------
(* Bounds of the model.                                                    *)

MaxStore == 3      \* most records the store holds
MaxBatch == 2      \* most files in one upload
MaxLen == 4        \* most symbols between the quotes of a JSON content
AltDim == 2        \* a vector length the embedding service may answer with

---------------------------------------------------------------------------
(* Python values.                                                          *)

PyNone == [type |-> "none"]
PyStr(s) == [type |-> "str", s |-> s]
PyDict(m) == [type |-> "dict", map |-> m]
PyList(items) == [type |-> "list", items |-> items]
PyInt(n) == [type |-> "int", val |-> n]
Raised == [type |-> "exception"]

Min(a, b) == IF a < b THEN a ELSE b

\* the backtick character (the symbol is named, not written: a backtick cannot
\* stand in a TLA+ string)
BT == "BACKTICK"
NL == "\n"
SP == " "
QUOTE == "\""
Whitespace == {NL, SP}

Fence == <<BT, BT, BT>>
FenceJson == <<BT, BT, BT, "json">>

\* s.find(pat) + 1: the first position at which pat occurs in s, 0 when none.
Find(s, pat) ==
    LET hits == {i \in 1..(Len(s) - Len(pat) + 1) :
                    SubSeq(s, i, i + Len(pat) - 1) = pat}
    IN IF hits = {} THEN 0 ELSE CHOOSE i \in hits : \A j \in hits : i <= j

\* pat in s
Contains(s, pat) == Find(s, pat) # 0

\* s.split(sep)[0]
Split0(s, sep) ==
    IF Contains(s, sep) THEN SubSeq(s, 1, Find(s, sep) - 1) ELSE s

\* s.split(sep)[1], for s that holds sep
Split1(s, sep) ==
    Split0(SubSeq(s, Find(s, sep) + Len(sep), Len(s)), sep)

\* s.strip()
Strip(s) ==
    LET keep == {i \in 1..Len(s) : s[i] \notin Whitespace}
    IN IF keep = {} THEN <<>>
       ELSE LET lo == CHOOSE i \in keep : \A j \in keep : i <= j
                hi == CHOOSE i \in keep : \A j \in keep : j <= i
            IN SubSeq(s, lo, hi)

\* s[:n]
Prefix(s, n) == SubSeq(s, 1, Min(Len(s), n))

---------------------------------------------------------------------------
(* json.loads, on the documents of the model.                              *)

\* Symbols that may stand between the quotes of a JSON string.
StringSymbols == {BT, "json", SP, "x"}

IsJsonString(s) ==
    /\ Len(s) >= 2
    /\ s[1] = QUOTE
    /\ s[Len(s)] = QUOTE
    /\ \A i \in 2..(Len(s) - 1) : s[i] \in StringSymbols

T == <<"T">>
P == <<"P">>
S == <<"S">>
E == <<"E">>
C == <<"C">>
K == <<"K">>
Ticked == <<"a", BT, BT, BT, "b">>

DocFull == <<"{\"title\":\"T\",\"problem\":\"P\",\"solution\":\"S\",\"effect\":\"E\",\"category\":\"C\"}">>
DocPartial == <<"{\"title\":\"T\",\"category\":\"C\"}">>
DocExtra == <<"{\"title\":\"T\",\"problem\":\"P\",\"solution\":\"S\",\"effect\":\"E\",\"category\":\"C\",\"claims\":\"K\"}">>
DocTicked == <<"{\"title\":\"a", BT, BT, BT, "b\"}">>
DocNames == <<"[\"title\",\"problem\",\"solution\",\"effect\",\"category\"]">>
DocArray == <<"[{\"title\":\"T\"}]">>
DocNumber == <<"7">>
DocNull == <<"null">>
DocProse == <<"Here", SP, "is", SP, "the", SP, "summary">>

ValFull ==
    PyDict([title |-> T, problem |-> P, solution |-> S, effect |-> E, category |-> C])
ValPartial == PyDict([title |-> T, category |-> C])
ValExtra ==
    PyDict([title |-> T, problem |-> P, solution |-> S, effect |-> E, category |-> C,
            claims |-> K])
ValTicked == PyDict([title |-> Ticked])
ValNames ==
    PyList(<<PyStr(<<"title">>), PyStr(<<"problem">>), PyStr(<<"solution">>),
             PyStr(<<"effect">>), PyStr(<<"category">>)>>)
ValArray == PyList(<<PyDict([title |-> T])>>)

\* json.loads(s): the value of the document s, Raised (JSONDecodeError) when s is
\* no JSON document.
JsonLoads(s) ==
    CASE s = DocFull -> ValFull
      [] s = DocPartial -> ValPartial
      [] s = DocExtra -> ValExtra
      [] s = DocTicked -> ValTicked
      [] s = DocNames -> ValNames
      [] s = DocArray -> ValArray
      [] s = DocNumber -> PyInt(7)
      [] s = DocNull -> PyNone
      [] IsJsonString(s) -> PyStr(SubSeq(s, 2, Len(s) - 1))
      [] OTHER -> Raised

---------------------------------------------------------------------------
(* Program constants.                                                      *)

EmbedDim == 768    \* np.random.rand(768)
ExcerptLen == 500  \* text[:500]
IdWidth == 6       \* :06d
MinRecords == 3    \* len(st.session_state.patents) < 3
MaxClusters == 3   \* min(3, len(st.session_state.patents))
PerplexityCap == 30  \* min(30, len(st.session_state.patents) - 1)

\* "(no information)": the value the summarizer gives a missing field
Sentinel == <<"(no information)">>

required_fields == <<"title", "problem", "solution", "effect", "category">>

RecordFields ==
    {"id", "filename", "title", "problem", "solution", "effect", "category",
     "full_text", "embedding", "processed_at"}

---------------------------------------------------------------------------
(* Python operations on values.                                            *)

\* bool(v)
Truthy(v) ==
    CASE v.type = "none" -> FALSE
      [] v.type = "dict" -> DOMAIN v.map # {}
      [] v.type = "list" -> Len(v.items) > 0
      [] v.type = "str" -> Len(v.s) > 0
      [] v.type = "int" -> v.val # 0
      [] OTHER -> TRUE

\* `key in v` is defined (raises no TypeError) for these values
Container(v) == v.type \in {"dict", "list", "str"}

\* key in v, for a container v and a string key
PyIn(key, v) ==
    CASE v.type = "dict" -> key \in DOMAIN v.map
      [] v.type = "list" ->
            \E i \in 1..Len(v.items) :
                v.items[i].type = "str" /\ v.items[i].s = <<key>>
      [] v.type = "str" -> Contains(v.s, <<key>>)

\* v[key] = value; Raised (TypeError) unless v is a dict
PySetItem(v, key, value) ==
    IF v.type = "dict"
    THEN PyDict([k \in DOMAIN v.map \cup {key} |-> IF k = key THEN value ELSE v.map[k]])
    ELSE Raised

\* v[key]; Raised (TypeError, KeyError) unless v is a dict that holds key
PyGetItem(v, key) ==
    IF v.type = "dict" /\ key \in DOMAIN v.map THEN PyStr(v.map[key]) ELSE Raised

---------------------------------------------------------------------------
(* extract_text_from_pdf.                                                  *)

\* the loop over pdf_reader.pages, from page i on
RECURSIVE PagesText(_, _)
PagesText(pages, i) ==
    IF i > Len(pages) THEN <<>>
    ELSE (IF Len(pages[i]) > 0 THEN pages[i] \o <<NL>> ELSE <<>>)
         \o PagesText(pages, i + 1)

\* A pdf is [name, readable, pages]: PdfReader raises on an unreadable one.
extract_text_from_pdf(pdf_file) ==
    IF pdf_file.readable THEN PyStr(Strip(PagesText(pdf_file.pages, 1))) ELSE PyNone

---------------------------------------------------------------------------
(* summarize_patent_with_gemini.                                           *)

\* the string handed to json.loads
json_str(content) ==
    IF Contains(content, FenceJson)
    THEN Strip(Split0(Split1(content, FenceJson), Fence))
    ELSE IF Contains(content, Fence)
         THEN Strip(Split0(Split1(content, Fence), Fence))
         ELSE Strip(content)

\* the loop over required_fields from field i on; Raised when it raises
RECURSIVE Backfill(_, _)
Backfill(obj, i) ==
    IF i > Len(required_fields) THEN obj
    ELSE IF ~Container(obj) THEN Raised
    ELSE IF PyIn(required_fields[i], obj) THEN Backfill(obj, i + 1)
    ELSE LET set == PySetItem(obj, required_fields[i], Sentinel)
         IN IF set.type = "exception" THEN Raised ELSE Backfill(set, i + 1)

\* summary = json.loads(json_str), of a response of model.generate_content
\* (Raised: the call raised)
ParsedOf(response) ==
    IF response.type = "exception" THEN Raised ELSE JsonLoads(json_str(response.s))

\* the value returned for a response: the summary, or PyNone from either except
summarize_patent_with_gemini(response) ==
    LET obj == ParsedOf(response)
    IN IF obj.type = "exception" THEN PyNone
       ELSE LET out == Backfill(obj, 1)
            IN IF out.type = "exception" THEN PyNone ELSE out

---------------------------------------------------------------------------
(* generate_embeddings_with_gemini.                                        *)

\* a vector of n numbers; the numbers themselves are not modelled
Vec(n) == [i \in 1..n |-> "float"]

\* np.random.rand(768).tolist()
FallbackVector == Vec(EmbedDim)

\* the value returned for a result of genai.embed_content (Raised: the call raised)
generate_embeddings_with_gemini(result) ==
    IF result.type = "dict" /\ "embedding" \in DOMAIN result.map
    THEN result.map["embedding"]
    ELSE FallbackVector

---------------------------------------------------------------------------
(* The record of one file.                                                 *)

DigitChar == <<"0", "1", "2", "3", "4", "5", "6", "7", "8", "9">>

RECURSIVE Digits(_)
Digits(n) ==
    IF n < 10 THEN <<DigitChar[n + 1]>>
    ELSE Digits(n \div 10) \o <<DigitChar[(n % 10) + 1]>>

\* format(n, "06d")
ZeroPad(n) ==
    LET d == Digits(n)
    IN IF Len(d) >= IdWidth THEN d ELSE [i \in 1..(IdWidth - Len(d)) |-> "0"] \o d

\* faulty variant: the id numbered by the file's position in the upload
patent_id_by_position(store) == <<"J", "P", "2", "0", "2", "4">> \o ZeroPad(idx - 1)

\* f"JP2024{len(st.session_state.patents):06d}"
patent_id(store) == <<"J", "P", "2", "0", "2", "4">> \o ZeroPad(Len(store))

patent_data(store, file, txt, summ, emb, now) ==
    [id |-> patent_id(store),
     filename |-> file.name,
     title |-> summ.map["title"],
     problem |-> summ.map["problem"],
     solution |-> summ.map["solution"],
     effect |-> summ.map["effect"],
     category |-> summ.map["category"],
     full_text |-> Prefix(txt.s, ExcerptLen) \o <<".", ".", ".">>,
     embedding |-> emb,
     processed_at |-> now]

---------------------------------------------------------------------------
(* The environment: uploads, the answers of the Gemini services, the clock. *)

GoodFile ==
    [name |-> "good.pdf", readable |-> TRUE, pages |-> <<<<"x", "x">>, <<>>, <<"x">>>>]
ScanFile == [name |-> "scan.pdf", readable |-> TRUE, pages |-> <<<<>>, <<>>>>]
BadFile == [name |-> "bad.pdf", readable |-> FALSE, pages |-> <<>>]

UploadableFiles == {GoodFile, ScanFile, BadFile}

\* the uploads of 1..MaxBatch files
Uploads == UNION {[1..n -> UploadableFiles] : n \in 1..MaxBatch}

\* c wrapped in a fence tagged json, in an untagged fence
TaggedFence(c) == FenceJson \o <<NL>> \o c \o <<NL>> \o Fence
UntaggedFence(c) == Fence \o <<NL>> \o c \o <<NL>> \o Fence

\* response.text of model.generate_content
Responses ==
    {TaggedFence(DocFull), UntaggedFence(DocPartial), <<NL>> \o DocExtra \o <<NL>>,
     TaggedFence(DocTicked), DocNames, UntaggedFence(DocArray), DocNumber,
     DocNull, DocProse, <<QUOTE, "x", QUOTE>>}

\* outcomes of model.generate_content: it raises, or answers a text
GenerationOutcomes == {Raised} \cup {PyStr(r) : r \in Responses}

\* outcomes of genai.embed_content: it raises, or answers a dict
EmbedOutcomes ==
    {Raised,
     PyDict([error |-> <<"quota">>]),
     PyDict([embedding |-> Vec(EmbedDim)]),
     PyDict([embedding |-> Vec(AltDim)])}

\* datetime.now().strftime("%Y-%m-%d %H:%M:%S")
Timestamps == {"2025-12-15 10:00:00"}

ApiKeys == {"", "AIza"}

---------------------------------------------------------------------------
(* Tab 2: the dashboard.                                                   *)

\* what a run that did not complete the analysis leaves of tab 2
NotAnalysed(view, clustering, k) ==
    [view |-> view, clustering |-> clustering, projection |-> FALSE, n_clusters |-> k,
     clusters |-> <<>>, coords_2d |-> <<>>, df_viz |-> <<>>]

\* tab 2 before the script run reaches it
NotRun == NotAnalysed("pending", FALSE, 0)

\* what the application's state machine keeps of a tab-2 evaluation
Summary(d) ==
    [view |-> d.view, clustering |-> d.clustering, projection |-> d.projection,
     n_clusters |-> d.n_clusters]

Pending == Summary(NotRun)

\* np.array of the embeddings is a matrix: all rows have one length
Uniform(store) ==
    \A i, j \in 1..Len(store) : Len(store[i].embedding) = Len(store[j].embedding)

\* embeddings = np.array([p['embedding'] for p in st.session_state.patents])
embeddings(store) == [i \in 1..Len(store) |-> store[i].embedding]

\* n_clusters = min(3, len(st.session_state.patents))
n_clusters(store) == Min(MaxClusters, Len(store))

\* perplexity=min(30, len(st.session_state.patents) - 1)
perplexity(store) == Min(PerplexityCap, Len(store) - 1)

\* outcomes of KMeans(n_clusters=k, ...).fit_predict on a matrix: one label in
\* 0..k-1 per row (the distances are not modelled: any labelling)
KMeansOutcomes(matrix, k) == [1..Len(matrix) -> 0..(k - 1)]

\* outcome of TSNE(n_components=2, ...).fit_transform on a matrix: one pair of
\* numbers per row; Raised (ValueError) unless perplexity < number of rows
TsneOutcome(matrix, perp) ==
    IF perp < Len(matrix)
    THEN [i \in 1..Len(matrix) |-> <<"float", "float">>]
    ELSE Raised

\* df_viz = pd.DataFrame({...}), row by row
df_viz(store, clusters, coords_2d) ==
    [i \in 1..Len(store) |->
        [x |-> coords_2d[i][1],
         y |-> coords_2d[i][2],
         cluster |-> clusters[i] + 1,
         title |-> store[i].title,
         category |-> store[i].category,
         id |-> store[i].id]]

\* The evaluations of tab 2 on the store. On rows of different lengths
\* np.array raises (numpy >= 1.24) or builds an object array on which
\* KMeans.fit_predict raises: the clustering is entered or not, the projection
\* is never reached.
Tab2Runs(store) ==
    IF Len(store) = 0
    THEN {NotAnalysed("no_data", FALSE, 0)}
    ELSE IF Len(store) < MinRecords
    THEN {NotAnalysed("insufficient", FALSE, 0)}
    ELSE IF Uniform(store)
    THEN LET matrix == embeddings(store)
             coords == TsneOutcome(matrix, perplexity(store))
         IN IF DOMAIN coords = {"type"}
            THEN {NotAnalysed("error", TRUE, n_clusters(store))}
            ELSE {[view |-> "analysis", clustering |-> TRUE, projection |-> TRUE,
                   n_clusters |-> n_clusters(store),
                   clusters |-> labels,
                   coords_2d |-> coords,
                   df_viz |-> df_viz(store, labels, coords)] :
                  labels \in KMeansOutcomes(matrix, n_clusters(store))}
    ELSE {NotAnalysed("error", b, n_clusters(store)) : b \in BOOLEAN}

\* the outcomes of evaluating tab 2 on the store
Tab2Outcomes(store) == {Summary(d) : d \in Tab2Runs(store)}

---------------------------------------------------------------------------
(* Tab 3: the trend report.                                                *)

NoReport == [state |-> "none", key |-> ""]

\* outcomes of model.generate_content for the report: it raises, or answers a
\* text (an empty one, or a report)
ReportOutcomes == {Raised, PyStr(<<>>), PyStr(<<"#", SP, "report">>)}

\* the value returned for an outcome: response.text, or PyNone from the except
generate_trend_report_with_gemini(outcome) ==
    IF outcome.type = "exception" THEN PyNone ELSE outcome

---------------------------------------------------------------------------
(* The state machine.                                                      *)

\* sidebar: if api_key_input: st.session_state.api_key_verified = True
SidebarVerified(key, verified) == IF key # "" THEN TRUE ELSE verified

NoFence == [state |-> "off", c |-> <<>>, tagged |-> <<>>, untagged |-> <<>>, plain |-> <<>>]

\* The first script run of a session has run: the api key input holds the key
\* of st.secrets, or nothing.
InitApp ==
    /\ patents = <<>>
    /\ api_key_input \in ApiKeys
    /\ api_key_verified = SidebarVerified(api_key_input, FALSE)
    /\ pc = "idle"
    /\ uploaded_files = <<>>
    /\ idx = 0
    /\ text = PyNone
    /\ parsed = PyNone
    /\ summary = PyNone
    /\ embedding = <<>>
    /\ dashboard \in Tab2Outcomes(<<>>)
    /\ report = NoReport
    /\ issued = {}
    /\ batchStart = <<>>
    /\ fileStart = <<>>
    /\ outcomes = <<>>
    /\ stages = <<>>
    /\ provenance = <<>>
    /\ sinceClear = FALSE

Init == InitApp /\ fence = NoFence

\* the script is waiting for a user event: a page is shown (after a run that
\* ended, or one that an exception stopped)
Waiting == pc \in {"idle", "crashed"}

\* the clear button is on the page shown: the sidebar of the run that drew the
\* page saw a non-empty store
ClearShown == IF pc = "crashed" THEN batchStart # <<>> ELSE patents # <<>>

\* the batch locals and histories when no batch runs
NoBatch ==
    /\ uploaded_files' = <<>>
    /\ idx' = 0
    /\ text' = PyNone
    /\ parsed' = PyNone
    /\ summary' = PyNone
    /\ embedding' = <<>>
    /\ batchStart' = <<>>
    /\ fileStart' = <<>>
    /\ outcomes' = <<>>
    /\ stages' = <<>>

\* a script run that no button started: sidebar, then tabs 1 to 3
Render(key) ==
    /\ api_key_input' = key
    /\ api_key_verified' = SidebarVerified(key, api_key_verified)
    /\ dashboard' \in Tab2Outcomes(patents)
    /\ report' = NoReport
    /\ pc' = "idle"
    /\ NoBatch
    /\ UNCHANGED <<patents, provenance, sinceClear, fence, issued>>

\* the user edits the api key input
EditApiKey ==
    /\ Waiting
    /\ \E key \in ApiKeys \ {api_key_input} : Render(key)

\* the user touches a widget that changes no state of the model
Refresh ==
    /\ Waiting
    /\ Render(api_key_input)

\* the run started by st.rerun()
Rerun ==
    /\ pc = "rerun"
    /\ Render(api_key_input)

\* faulty variant: the clear drops the last record only
ClearedStore_last_only == SubSeq(patents, 1, Len(patents) - 1)

\* st.session_state.patents = []
ClearedStore == <<>>

\* the user clicks the clear button
ClickClear ==
    /\ Waiting
    /\ ClearShown
    /\ api_key_verified' = SidebarVerified(api_key_input, api_key_verified)
    /\ patents' = ClearedStore
    /\ provenance' = SubSeq(provenance, 1, Len(patents'))
    /\ sinceClear' = TRUE
    /\ dashboard' = Pending
    /\ report' = NoReport
    /\ pc' = "rerun"
    /\ NoBatch
    /\ UNCHANGED <<api_key_input, fence, issued>>

\* tab 3 is on the page shown: the run that drew the page reached it, with a
\* verified key and a non-empty store
ReportShown ==
    /\ pc = "idle"
    /\ dashboard.view # "error"
    /\ api_key_verified
    /\ patents # <<>>

\* the user clicks the report button on a non-empty selection of records
GenerateReport ==
    /\ ReportShown
    /\ \E selected_indices \in (SUBSET (1..Len(patents))) \ {{}} : TRUE
    /\ \E outcome \in ReportOutcomes :
          report' = [state |-> IF Truthy(generate_trend_report_with_gemini(outcome))
                               THEN "shown" ELSE "failed",
                     key |-> api_key_input]
    /\ api_key_verified' = SidebarVerified(api_key_input, api_key_verified)
    /\ dashboard' \in Tab2Outcomes(patents)
    /\ dashboard'.view # "error"
    /\ pc' = "idle"
    /\ NoBatch
    /\ UNCHANGED <<patents, api_key_input, provenance, sinceClear, fence, issued>>

---------------------------------------------------------------------------
(* Tab 1: the batch loop, one action per stage of the loop body.           *)

\* the stages invoked in this batch for file i, in order
StagesOf(i) ==
    LET Mine(st) == st[1] = i
        mine == SelectSeq(stages, Mine)
    IN [k \in 1..Len(mine) |-> mine[k][2]]

\* the loop body ends for the current file (continue, or the end of the body)
\* with `outcome`; the loop goes to the next file or ends. The locals are
\* reset: the next iteration assigns each before it reads it.
EndFile(outcome) ==
    /\ outcomes' = Append(outcomes, outcome)
    /\ fileStart' = patents'
    /\ text' = PyNone
    /\ parsed' = PyNone
    /\ summary' = PyNone
    /\ embedding' = <<>>
    /\ IF idx < Len(uploaded_files)
       THEN idx' = idx + 1 /\ pc' = "extract"
       ELSE idx' = idx /\ pc' = "batch_end"

\* the user clicks the start button on an upload
StartBatch ==
    /\ Waiting
    /\ api_key_verified' = SidebarVerified(api_key_input, api_key_verified)
    /\ api_key_verified'
    /\ \E files \in Uploads :
          /\ Len(patents) + Len(files) <= MaxStore
          /\ uploaded_files' = files
    /\ idx' = 1
    /\ pc' = "extract"
    /\ batchStart' = patents
    /\ fileStart' = patents
    /\ outcomes' = <<>>
    /\ stages' = <<>>
    /\ dashboard' = Pending
    /\ report' = NoReport
    /\ text' = PyNone
    /\ parsed' = PyNone
    /\ summary' = PyNone
    /\ embedding' = <<>>
    /\ UNCHANGED <<patents, api_key_input, provenance, sinceClear, fence, issued>>

\* faulty variant: a file without text is stored as a record of its name alone
Extract_stores_failed_file ==
    /\ pc = "extract"
    /\ stages' = Append(stages, <<idx, "extract">>)
    /\ LET t == extract_text_from_pdf(uploaded_files[idx])
       IN IF ~Truthy(t)
          THEN /\ patents' = Append(patents, [id |-> patent_id(patents),
                                              filename |-> uploaded_files[idx].name])
               /\ provenance' = Append(provenance, <<"extract">>)
               /\ EndFile("extract_failed")
          ELSE /\ text' = t
               /\ pc' = "summarize"
               /\ UNCHANGED <<patents, provenance, idx, parsed, summary, embedding,
                              outcomes, fileStart>>
    /\ UNCHANGED <<api_key_input, api_key_verified, uploaded_files, dashboard,
                   report, batchStart, sinceClear, fence, issued>>

\* text = extract_text_from_pdf(file); if not text: continue
Extract ==
    /\ pc = "extract"
    /\ UNCHANGED <<patents, api_key_input, api_key_verified, uploaded_files, dashboard,
                   report, batchStart, provenance, sinceClear, fence, issued>>
    /\ stages' = Append(stages, <<idx, "extract">>)
    /\ LET t == extract_text_from_pdf(uploaded_files[idx])
       IN IF ~Truthy(t)
          THEN /\ EndFile("extract_failed")
          ELSE /\ text' = t
               /\ pc' = "summarize"
               /\ UNCHANGED <<idx, parsed, summary, embedding, outcomes, fileStart>>

\* summary = summarize_patent_with_gemini(text, api_key_input);
\* if not summary: continue; st.write(... summary['title'] ...)
Summarize ==
    /\ pc = "summarize"
    /\ UNCHANGED <<patents, api_key_input, api_key_verified, uploaded_files, dashboard,
                   report, batchStart, provenance, sinceClear, fence, issued>>
    /\ stages' = Append(stages, <<idx, "summarize">>)
    /\ \E response \in GenerationOutcomes :
          LET summ == summarize_patent_with_gemini(response)
          IN IF ~Truthy(summ)
             THEN EndFile("summarize_failed")
             ELSE /\ parsed' = ParsedOf(response)
                  /\ summary' = summ
                  /\ pc' = IF PyGetItem(summ, "title").type = "exception"
                           THEN "crashed" ELSE "embed"
                  /\ outcomes' = IF PyGetItem(summ, "title").type = "exception"
                                 THEN Append(outcomes, "crashed") ELSE outcomes
                  /\ UNCHANGED <<idx, text, embedding, fileStart>>

\* embedding = generate_embeddings_with_gemini(text, api_key_input)
Embed ==
    /\ pc = "embed"
    /\ stages' = Append(stages, <<idx, "embed">>)
    /\ \E result \in EmbedOutcomes :
          embedding' = generate_embeddings_with_gemini(result)
    /\ pc' = "commit"
    /\ UNCHANGED <<patents, api_key_input, api_key_verified, uploaded_files, idx, text,
                   parsed, summary, dashboard, report, batchStart, fileStart,
                   outcomes, provenance, sinceClear, fence, issued>>

\* faulty variant: the record is inserted at the head of the store
AppendRecord_at_head(store, rec) == <<rec>> \o store

\* st.session_state.patents.append(patent_data)
AppendRecord(store, rec) == Append(store, rec)

\* patent_data = {...}; st.session_state.patents.append(patent_data)
Commit ==
    /\ pc = "commit"
    /\ \E now \in Timestamps :
          patents' = AppendRecord(patents,
                        patent_data(patents, uploaded_files[idx], text, summary,
                                    embedding, now))
    /\ provenance' = Append(provenance, StagesOf(idx))
    /\ sinceClear' = FALSE
    /\ EndFile("ok")
    /\ issued' = issued \cup {patents'[Len(patents')].id}
    /\ UNCHANGED <<api_key_input, api_key_verified, uploaded_files, dashboard,
                   report, batchStart, stages, fence>>

\* after the loop: st.balloons(); st.rerun()
BatchEnd ==
    /\ pc = "batch_end"
    /\ pc' = "rerun"
    /\ dashboard' = Pending
    /\ NoBatch
    /\ UNCHANGED <<patents, api_key_input, api_key_verified, report, provenance,
                   sinceClear, fence, issued>>

Next ==
    \/ EditApiKey
    \/ Refresh
    \/ Rerun
    \/ ClickClear
    \/ GenerateReport
    \/ StartBatch
    \/ Extract
    \/ Summarize
    \/ Embed
    \/ Commit
    \/ BatchEnd

Spec == Init /\ [][Next]_vars

---------------------------------------------------------------------------
(* The fence-stripping step of the summarizer on its own: every JSON       *)
(* content, answered in a tagged fence, in an untagged fence and bare.     *)

\* the JSON string documents of at most MaxLen symbols between the quotes
JsonContents ==
    {<<QUOTE>> \o body \o <<QUOTE>> :
        body \in UNION {[1..n -> StringSymbols] : n \in 0..MaxLen}}

InitFence ==
    /\ InitApp
    /\ \E c \in JsonContents :
          fence = [state |-> "content", c |-> c, tagged |-> <<>>, untagged |-> <<>>,
                   plain |-> <<>>]

StripFences ==
    /\ fence.state = "content"
    /\ fence' = [state |-> "stripped",
                 c |-> fence.c,
                 tagged |-> json_str(TaggedFence(fence.c)),
                 untagged |-> json_str(UntaggedFence(fence.c)),
                 plain |-> json_str(fence.c)]
    /\ UNCHANGED <<patents, api_key_input, api_key_verified, pc, uploaded_files, idx,
                   text, parsed, summary, embedding, dashboard, report, batchStart,
                   fileStart, outcomes, stages, provenance, sinceClear, issued>>

NextFence == StripFences

SpecFence == InitFence /\ [][NextFence]_vars

---------------------------------------------------------------------------
(* Tab 2 on its own: a script run evaluates the dashboard on every store   *)
(* that ingestion can build, and the labels, coordinates and rows of the   *)
(* evaluation are kept.                                                    *)

\* the summaries that reach the record construction
StoredSummaries ==
    {summ \in {summarize_patent_with_gemini(r) : r \in GenerationOutcomes} :
        Truthy(summ) /\ PyGetItem(summ, "title").type # "exception"}

\* the vectors that reach the record construction
StoredVectors == {generate_embeddings_with_gemini(r) : r \in EmbedOutcomes}

\* the stores of n records: each record is built on the store before it
RECURSIVE StoresOf(_)
StoresOf(n) ==
    IF n = 0 THEN {<<>>}
    ELSE {AppendRecord(store,
              patent_data(store, GoodFile, extract_text_from_pdf(GoodFile), summ, emb,
                          now)) :
            store \in StoresOf(n - 1), summ \in StoredSummaries,
            emb \in StoredVectors, now \in Timestamps}

InitTab2 ==
    /\ \E n \in 0..MaxStore : patents \in StoresOf(n)
    /\ api_key_input \in ApiKeys
    /\ api_key_verified = SidebarVerified(api_key_input, FALSE)
    /\ pc = "rerun"
    /\ uploaded_files = <<>>
    /\ idx = 0
    /\ text = PyNone
    /\ parsed = PyNone
    /\ summary = PyNone
    /\ embedding = <<>>
    /\ dashboard = NotRun
    /\ report = NoReport
    /\ issued = {patents[i].id : i \in 1..Len(patents)}
    /\ batchStart = <<>>
    /\ fileStart = <<>>
    /\ outcomes = <<>>
    /\ stages = <<>>
    /\ provenance = <<>>
    /\ sinceClear = FALSE
    /\ fence = NoFence

\* the script run reaches tab 2
RunTab2 ==
    /\ pc = "rerun"
    /\ dashboard' \in Tab2Runs(patents)
    /\ pc' = "idle"
    /\ UNCHANGED <<patents, api_key_input, api_key_verified, uploaded_files, idx, text,
                   parsed, summary, embedding, report, batchStart, fileStart, outcomes,
                   stages, provenance, sinceClear, fence, issued>>

NextTab2 == RunTab2

SpecTab2 == InitTab2 /\ [][NextTab2]_vars

---------------------------------------------------------------------------
(* Properties.                                                             *)

InBatch == pc \in {"extract", "summarize", "embed", "commit", "batch_end", "crashed"}

\* the script run that ran the batch is over
BatchOver == pc \in {"batch_end", "crashed"}

Failures == {"extract_failed", "summarize_failed"}

\* the names of the files of the batch whose outcome so far is "ok", in order
RECURSIVE OkNames(_)
OkNames(i) ==
    IF i = 0 THEN <<>>
    ELSE OkNames(i - 1)
         \o (IF i <= Len(outcomes) /\ outcomes[i] = "ok"
             THEN <<uploaded_files[i].name>> ELSE <<>>)

\* the records the batch has added to the store
Added == SubSeq(patents, Len(batchStart) + 1, Len(patents))

\* C1: per-file failure isolation. When the batch is over every file of the
\* upload has been processed, whatever failed before it, and the store is the
\* store before the batch followed by one record per successful file, in
\* upload order.
C1_FailureIsolation ==
    BatchOver =>
        /\ Len(outcomes) = Len(uploaded_files)
        /\ SubSeq(patents, 1, Len(batchStart)) = batchStart
        /\ [k \in 1..Len(Added) |-> Added[k].filename] = OkNames(Len(uploaded_files))

\* C2: id uniqueness. No two records held by the store have the same id.
C2_IdsUnique ==
    \A i, j \in 1..Len(patents) : i # j => patents[i].id # patents[j].id

\* a second batch, one file of which failed, has added to a non-empty store
C2_Witness ==
    /\ pc = "batch_end"
    /\ Len(batchStart) >= 1
    /\ Len(patents) > Len(batchStart)
    /\ \E i \in 1..Len(outcomes) : outcomes[i] \in Failures

\* C3: uniform embedding length. All records held by the store have
\* embeddings of one length.
C3_UniformEmbedding ==
    \A i, j \in 1..Len(patents) :
        Len(patents[i].embedding) = Len(patents[j].embedding)

\* C4: analyzer threshold. On every render, clustering and projection are
\* executed if and only if the store holds at least 3 records, and below 3
\* records an explicit insufficient-data state is shown.
C4_AnalyzerThreshold ==
    dashboard.view # "pending" =>
        /\ (dashboard.clustering /\ dashboard.projection) <=> Len(patents) >= MinRecords
        /\ Len(patents) < MinRecords => dashboard.view \in {"no_data", "insufficient"}

\* C5: clear empties the store. From the clear on, until a record is ingested,
\* the store holds no record and every evaluation of the dashboard yields the
\* insufficient-data state without clustering.
C5_ClearEmpties ==
    sinceClear =>
        /\ patents = <<>>
        /\ dashboard.view \in {"pending", "no_data"}
        /\ ~dashboard.clustering
        /\ ~dashboard.projection

\* the dashboard has been evaluated after a clear (the clear button is only on
\* a page whose store holds a record)
C5_Witness ==
    /\ sinceClear
    /\ pc = "idle"
    /\ dashboard.view = "no_data"

\* C6: append-only store. Every step leaves the store unchanged, appends one
\* record at the end leaving the records before it unchanged, or replaces the
\* store by the empty store.
C6_AppendOnly ==
    [][\/ patents' = patents
       \/ /\ Len(patents') = Len(patents) + 1
          /\ SubSeq(patents', 1, Len(patents)) = patents
       \/ patents' = <<>>]_vars

\* a record has been appended after the records of an earlier batch
C6_Witness ==
    /\ pc \in {"extract", "batch_end"}
    /\ Len(batchStart) >= 1
    /\ Len(patents) > Len(batchStart)

\* number of "ok" among the first i outcomes
RECURSIVE OkCount(_)
OkCount(i) ==
    IF i = 0 THEN 0 ELSE OkCount(i - 1) + (IF outcomes[i] = "ok" THEN 1 ELSE 0)

\* C7: no partial record. Every stored record carries all ten fields and was
\* built by extract, summarize, embed in that order; in a batch the store is
\* the store before the batch plus one record per file completed, it is
\* untouched while a file is in its stages, and the embedder was not invoked
\* for a file that failed at extraction or summarization.
C7_NoPartialRecord ==
    /\ Len(provenance) = Len(patents)
    /\ \A k \in 1..Len(patents) :
          /\ DOMAIN patents[k] = RecordFields
          /\ provenance[k] = <<"extract", "summarize", "embed">>
    /\ InBatch =>
          /\ SubSeq(patents, 1, Len(batchStart)) = batchStart
          /\ Len(patents) = Len(batchStart) + OkCount(Len(outcomes))
          /\ fileStart = patents
          /\ \A i \in 1..Len(outcomes) :
                outcomes[i] \in Failures =>
                    \A k \in 1..Len(stages) : stages[k] # <<i, "embed">>

\* a batch is over in which one file failed at extraction, one failed at
\* summarization or was committed, and the store grew
C7_Witness ==
    /\ pc = "batch_end"
    /\ \E i, j \in 1..Len(outcomes) :
          outcomes[i] \in Failures /\ outcomes[j] = "ok"
    /\ Len(patents) > Len(batchStart)

\* C8: summarizer field completeness. A summary the summarizer returned holds
\* exactly the five required fields: each field of the parsed object keeps
\* its value, each missing one holds the sentinel.
C8_FieldCompleteness ==
    pc \in {"embed", "crashed"} =>
        /\ summary.type = "dict"
        /\ DOMAIN summary.map = {required_fields[i] : i \in 1..Len(required_fields)}
        /\ \A f \in DOMAIN summary.map :
              summary.map[f] = IF f \in DOMAIN parsed.map THEN parsed.map[f] ELSE Sentinel

\* C9: fence-stripping equivalence. A JSON content yields the same string to
\* parse whether answered in a fence tagged json, in an untagged fence or bare.
C9_FenceEquivalence ==
    fence.state = "stripped" =>
        /\ fence.tagged = fence.untagged
        /\ fence.untagged = fence.plain

\* C10: embedder dimensionality. The vector the embedder returned has the
\* configured dimensionality, on the success path and on the fallback path.
C10_EmbedderDimension ==
    pc = "commit" => Len(embedding) = EmbedDim

\* the number a decimal digit stands for
DigitValue(d) == (CHOOSE i \in 1..10 : DigitChar[i] = d) - 1

\* the number written by the digits ds
RECURSIVE Number(_)
Number(ds) ==
    IF Len(ds) = 0 THEN 0
    ELSE 10 * Number(SubSeq(ds, 1, Len(ds) - 1)) + DigitValue(ds[Len(ds)])

\* the number an id carries after its JP2024 prefix
IdNumber(id) == Number(SubSeq(id, 7, Len(id)))

\* C11: ids increase through the session. The id a step gives to a new
\* record is greater than every id given earlier in the session, also after a
\* clear, so no id is given twice.
C11_IdsIncrease ==
    [][Len(patents') = Len(patents) + 1 =>
          \A old \in issued :
              IdNumber(old) < IdNumber(patents'[Len(patents')].id)]_vars

\* the script run has evaluated the analysis branch of tab 2
AnalyzerRan == dashboard.view \in {"analysis", "error"}

\* the properties of a labelling of the N records of the store
Labelled ==
    LET N == Len(patents)
        k == dashboard.n_clusters
    IN /\ k = Min(3, N)
       /\ k <= N
       /\ DOMAIN dashboard.clusters = 1..N
       /\ DOMAIN dashboard.coords_2d = 1..N
       /\ DOMAIN dashboard.df_viz = 1..N
       /\ \A i \in 1..N :
             /\ dashboard.clusters[i] \in 0..(k - 1)
             /\ Len(dashboard.coords_2d[i]) = 2
             /\ dashboard.df_viz[i].id = patents[i].id
             /\ dashboard.df_viz[i].title = patents[i].title
             /\ dashboard.df_viz[i].category = patents[i].category
             /\ dashboard.df_viz[i].cluster = dashboard.clusters[i] + 1
             /\ dashboard.df_viz[i].x = dashboard.coords_2d[i][1]
             /\ dashboard.df_viz[i].y = dashboard.coords_2d[i][2]

\* C12: cluster labelling. Whenever the analyzer runs on N >= 3 records, the
\* number of clusters is min(3, N) and at most N, every record has exactly one
\* label in [0, k) and exactly one pair of coordinates: the sequence of labels
\* and the sequence of coordinates have length N, and their i-th entries are
\* those of the i-th record of the store, as the rows of the plot show.
C12_ClusterLabelling ==
    (AnalyzerRan /\ Len(patents) >= MinRecords) => Labelled

\* C13: credential gate. After any sequence of edits to the api key input, the
\* batch ingestion and the report generation only start in a state where the
\* current api key is non-empty; equivalently the credential-verified flag is
\* true only while the current key input is non-empty.
C13_CredentialGate ==
    /\ api_key_verified => api_key_input # ""
    /\ pc \in {"extract", "summarize", "embed", "commit"} => api_key_input # ""
    /\ report.state # "none" => report.key # ""

====
